---- MODULE Spec2Model ----
(***************************************************************************)
(* o2utils: cleaning of PreSens oxygen-sensor logs and linear fits over an *)
(* analysis window.  The module models                                     *)
(*   - analyze.py      linear_fit, get_fit, fit_all                        *)
(*   - clean.py /      parse_presens_file, presens_to_csv                  *)
(*     processing.py   clean_name and its helpers                          *)
(* Floating-point values are carried as exact fractions n/d, NaN and null  *)
(* are kept apart (polars: NaN is a value, null is a missing value).       *)
(***************************************************************************)
EXTENDS Integers, Sequences, FiniteSets, TLC

VARIABLES
    fit_df,        \* the series (DataFrame) handed to linear_fit / read by get_fit
    fit_metadata,  \* the metadata row holding the analysis window
    fit_call,      \* which entry point ran last, with its arguments
    fit_out,       \* what it returned, or the error it raised
    folder,        \* fit_all: file stem -> rows of the cleaned csv
    info_df,       \* fit_all: the metadata sheet, a set of rows
    order,         \* fit_all: the order in which glob enumerates the folder
    batch_pc,      \* fit_all: "start", "loop", "returned", "raised"
    data,          \* fit_all: the concatenated csv files, partitioned by file
    batch_i,       \* fit_all: number of partitions already processed
    res_dfs,       \* fit_all: list of one-row fit records
    source_dfs,    \* fit_all: list of fitted series
    batch_out,     \* fit_all: the returned pair of tables
    batch_err,     \* fit_all: the raised error, "" if none
    txt_files,     \* presens_to_csv: file stem -> raw instrument file
    name_mapping,  \* presens_to_csv: stem -> new name (a partial mapping)
    glob_order,    \* presens_to_csv: the order in which glob enumerates
    export_pc,     \* presens_to_csv: "start", "parse", "write", "done", "raised"
    renamed,       \* presens_to_csv: list of <<old, new>>
    renamed_with_dtm, \* presens_to_csv: list of <<old, new_with_dtm, df>>
    export_i,      \* presens_to_csv: position in the running loop
    written,       \* presens_to_csv: output folder, file name -> rows
    export_err,    \* presens_to_csv: the raised error, "" if none
    raw_file,      \* parse_presens_file: the instrument file
    parse_pc,      \* parse_presens_file: "input", "parsed", "raised"
    parsed,        \* parse_presens_file: the returned DataFrame
    name_in,       \* clean_name: the argument
    name_pc,       \* clean_name: "input", "done"
    name_out       \* clean_name: the result

fit_vars == <<fit_df, fit_metadata, fit_call, fit_out>>
batch_vars == <<folder, info_df, order, batch_pc, data, batch_i, res_dfs, source_dfs,
                batch_out, batch_err>>
export_vars == <<txt_files, name_mapping, glob_order, export_pc, renamed,
                 renamed_with_dtm, export_i, written, export_err>>
parse_vars == <<raw_file, parse_pc, parsed>>
name_vars == <<name_in, name_pc, name_out>>
vars == <<fit_vars, batch_vars, export_vars, parse_vars, name_vars>>

(***************************************************************************)
(* Bounds of the model.                                                    *)
(***************************************************************************)
MaxRows == 2      \* rows of a series handed to linear_fit
MaxTime == 1      \* largest elapsed time of a row
MaxOxygen == 1    \* largest oxygen reading of a row
MaxFiles == 2     \* csv files in the folder of fit_all
MaxTxt == 2       \* txt files in the folder of presens_to_csv
MaxRawRows == 3   \* rows of an instrument file
MaxLen == 3       \* characters of a name given to clean_name

(***************************************************************************)
(* Values of a polars cell: a number n/d, NaN, or null.                    *)
(***************************************************************************)
Null == [k |-> "null", n |-> 0, d |-> 1]
NaN == [k |-> "nan", n |-> 0, d |-> 1]
Num(n, d) == [k |-> "num", n |-> n, d |-> d]

Abs(a) == IF a < 0 THEN -a ELSE a

RECURSIVE GCD(_, _)
GCD(a, b) == IF b = 0 THEN a ELSE GCD(b, a % b)

\* the fraction n/d in lowest terms with a positive denominator (d # 0)
Frac(n, d) ==
    LET g == GCD(Abs(n), Abs(d))
        s == IF d < 0 THEN -1 ELSE 1
    IN  Num((s * n) \div g, (s * d) \div g)

RECURSIVE Pow10(_)
Pow10(e) == IF e = 0 THEN 1 ELSE 10 * Pow10(e - 1)

\* a/b rounded to the nearest integer, halves away from zero (b > 0)
RoundDiv(a, b) ==
    IF a >= 0 THEN (2 * a + b) \div (2 * b) ELSE -((2 * (-a) + b) \div (2 * b))

\* pl.col(c).round(decimals): NaN stays NaN, null stays null
round(v, decimals) ==
    IF v.k = "num"
    THEN Num(RoundDiv(v.n * Pow10(decimals), v.d), Pow10(decimals))
    ELSE v

RECURSIVE Sum(_)
Sum(s) == IF s = <<>> THEN 0 ELSE Head(s) + Sum(Tail(s))

get_column(df, col) == [i \in 1..Len(df) |-> df[i][col]]

Dot(x, y) == Sum([i \in 1..Len(x) |-> x[i] * y[i]])

(***************************************************************************)
(* analyze.py                                                              *)
(***************************************************************************)

\* scipy.stats.linregress(x, y) as linear_fit uses it: slope, intercept and
\* rvalue.  rvalue is only ever squared by the caller, so its square is kept
\* (the root is not rational).  With n*n*ssxm = Dx, n*n*ssym = Dy and
\* n*n*ssxym = Dxy:  slope = ssxym/ssxm, intercept = ymean - slope*xmean,
\* r = 0 when ssxm or ssym is 0, else ssxym/sqrt(ssxm*ssym).
\* Empty input and more than one row all at the same x raise ValueError;
\* a single row divides 0 by 0 and gives NaN.
linregress(x, y) ==
    LET n == Len(x)
        Sx == Sum(x)
        Sy == Sum(y)
        Dx == n * Dot(x, x) - Sx * Sx
        Dy == n * Dot(y, y) - Sy * Sy
        Dxy == n * Dot(x, y) - Sx * Sy
    IN  IF n = 0
        THEN [raised |-> TRUE, slope |-> NaN, intercept |-> NaN, rvalue2 |-> NaN]
        ELSE IF n > 1 /\ Dx = 0
        THEN [raised |-> TRUE, slope |-> NaN, intercept |-> NaN, rvalue2 |-> NaN]
        ELSE [raised |-> FALSE,
              slope |-> IF Dx = 0 THEN NaN ELSE Frac(Dxy, Dx),
              intercept |-> IF Dx = 0 THEN NaN ELSE Frac(Sy * Dx - Dxy * Sx, n * Dx),
              rvalue2 |-> IF Dx = 0 \/ Dy = 0 THEN Num(0, 1) ELSE Frac(Dxy * Dxy, Dx * Dy)]

\* result.slope * pl.col(x_col) + result.intercept for one row
Predict(result, x) ==
    IF result.slope.k = "num" /\ result.intercept.k = "num"
    THEN Frac(result.slope.n * x * result.intercept.d + result.intercept.n * result.slope.d,
              result.slope.d * result.intercept.d)
    ELSE NaN

\* s.mean() of a polars Series: nulls are skipped, and the mean of no value
\* at all is None, which @safe wraps as Ok(None)
_mean_value(s) ==
    LET vals == SelectSeq(s, LAMBDA c : c # <<>>)
    IN  IF vals = <<>> THEN Null
        ELSE Frac(Sum([i \in 1..Len(vals) |-> vals[i][1]]), Len(vals))

\* pl.col(x_col).is_between(start, stop): both ends closed
is_between(x, start, stop) == start <= x /\ x <= stop

\* df.is_empty()
is_empty(df) == Len(df) = 0

\* a mutant of FitResult: the numbers start at 0.0 instead of None
FitResultZeros(name) ==
    [source_file_cleaned |-> name, slope |-> Num(0, 1), r2 |-> Num(0, 1),
     mean_temperature |-> Num(0, 1), start_time |-> Null, stop_time |-> Null,
     duration |-> Null]

\* the FitResult as first built: every field but the name is None
FitResult(name) ==
    [source_file_cleaned |-> name, slope |-> Null, r2 |-> Null,
     mean_temperature |-> Null, start_time |-> Null, stop_time |-> Null,
     duration |-> Null]

\* stop_time.str.to_datetime() - start_time.str.to_datetime(), in seconds
Duration(start_time, stop_time) ==
    IF start_time.k = "num" /\ stop_time.k = "num"
    THEN Num(stop_time.n - start_time.n, 1)
    ELSE Null

\* a mutant of ResolveStop: the -1 is handed to the filter as it is
ResolveStopKept(df, stop) == stop

\* metadata["analysis_stop_seconds"], with -1 standing for the last row
ResolveStop(df, stop) ==
    IF stop = -1 THEN df[Len(df)].time_seconds ELSE stop

Raised(err, name) ==
    [status |-> err, regressed |-> FALSE, res |-> FitResult(name), fitted |-> <<>>]

\* the empty-window return of linear_fit: the untouched record, and the
\* (empty) filtered frame with a NaN literal as oxygen_fitted
EmptyFit(name, df) ==
    [status |-> "ok", regressed |-> FALSE, res |-> FitResult(name),
     fitted |-> [i \in 1..Len(df) |->
                    [row |-> df[i], oxygen_fitted |-> NaN]]]

\* linear_fit from the regression on: lines 76-111
Regress(name, df) ==
    LET result == linregress(get_column(df, "time_seconds"), get_column(df, "oxygen"))
        t_start == df[1].datetime_local
        t_stop == df[Len(df)].datetime_local
        mean_res == _mean_value(get_column(df, "temperature"))
    IN  IF result.raised
        THEN [status |-> "ValueError", regressed |-> TRUE, res |-> FitResult(name),
              fitted |-> <<>>]
        ELSE [status |-> "ok", regressed |-> TRUE,
              res |-> [source_file_cleaned |-> name,
                       slope |-> round(result.slope, 5),
                       r2 |-> round(result.rvalue2, 3),
                       mean_temperature |-> round(mean_res, 1),
                       start_time |-> Num(t_start, 1),
                       stop_time |-> Num(t_stop, 1),
                       duration |-> Duration(Num(t_start, 1), Num(t_stop, 1))],
              fitted |-> [i \in 1..Len(df) |->
                            [row |-> df[i],
                             oxygen_fitted |-> Predict(result, df[i].time_seconds)]]]

linear_fit(df, metadata) ==
    IF Len(df) = 0
    THEN Raised("IndexError", "")               \* df.item(0, ...) on no rows
    ELSE
    LET name == df[1].source_file_cleaned
        start == metadata.analysis_start_seconds
        stop == ResolveStop(df, metadata.analysis_stop_seconds)
        filtered == SelectSeq(df, LAMBDA r : is_between(r.time_seconds, start, stop))
    IN  IF is_empty(filtered) THEN EmptyFit(name, filtered)
        ELSE Regress(name, filtered)


\* `a or b` of Python on an optional integer: None and 0 are both falsy.
\* An optional argument is <<>> for None, <<v>> for the integer v.
PyOr(a, b) == IF a = <<>> \/ a[1] = 0 THEN b ELSE a[1]

\* table.row(by_predicate=pl.col("source_file_cleaned") == key, named=True)
RowsByName(table, key) == {r \in table : r.source_file_cleaned = key}

\* a mutant of get_fit: the computed start/stop locals are handed to the fit
get_fit_override(stem, csv, info_file, start, stop) ==
    LET rows == RowsByName(info_file, stem)
    IN  IF rows = {} THEN Raised("NoRowsReturnedError", "")
        ELSE IF Cardinality(rows) > 1 THEN Raised("TooManyRowsReturnedError", "")
        ELSE LET info == CHOOSE r \in rows : TRUE
             IN  linear_fit(csv,
                     [info EXCEPT !.analysis_start_seconds = PyOr(start, @),
                                  !.analysis_stop_seconds = PyOr(stop, @)])

\* get_fit(source_file_cleaned, info_file, start, stop): stem is the stem of
\* the csv path, csv what pl.read_csv gives for it (the local `data`)
get_fit(stem, csv, info_file, start, stop) ==
    LET rows == RowsByName(info_file, stem)
    IN  IF rows = {} THEN Raised("NoRowsReturnedError", "")
        ELSE IF Cardinality(rows) > 1 THEN Raised("TooManyRowsReturnedError", "")
        ELSE LET info == CHOOSE r \in rows : TRUE
                 start_ == PyOr(start, info.analysis_start_seconds)
                 stop_ == PyOr(stop, info.analysis_stop_seconds)
             IN  linear_fit(csv, info)

(***************************************************************************)
(* Inputs of the fit                                                       *)
(***************************************************************************)
\* one sample of a cleaned series; datetime_local is the instant of the
\* sample, kept in seconds (the csv holds it as "%Y-%m-%d %H:%M:%S%z")
Row(name, t, o, c) ==
    [source_file_cleaned |-> name, time_seconds |-> t, oxygen |-> o,
     temperature |-> c, datetime_local |-> 3600 + t]

\* a temperature cell is <<>> when the csv field is empty (null)
Temperatures == {<<>>, <<4>>}

FitRows == {Row("a", t, o, c) : t \in 0..MaxTime, o \in 0..MaxOxygen, c \in Temperatures}

SeqsUpTo(S, n) == UNION {[1..m -> S] : m \in 0..n}

MetadataRow(name, start, stop) ==
    [source_file_cleaned |-> name, analysis_start_seconds |-> start,
     analysis_stop_seconds |-> stop]

FitWindows == {MetadataRow("a", start, stop) :
                  start \in 0..(MaxTime + 1), stop \in (-1)..(MaxTime + 1)}

NoCall == [op |-> "none", stem |-> "", start |-> <<>>, stop |-> <<>>]

GetFitArgs ==
    {[op |-> "get_fit", stem |-> "a", start |-> s, stop |-> e] :
        s \in {<<>>, <<1>>}, e \in {<<>>, <<0>>}}
    \cup {[op |-> "get_fit", stem |-> "b", start |-> <<>>, stop |-> <<>>]}

NoFit == Raised("", "")

\* linear_fit(df, metadata)
LinearFitCall ==
    /\ fit_call.op = "none"
    /\ fit_call' = [NoCall EXCEPT !.op = "linear_fit"]
    /\ fit_out' = linear_fit(fit_df, fit_metadata)
    /\ UNCHANGED <<fit_df, fit_metadata>>
    /\ UNCHANGED <<batch_vars, export_vars, parse_vars, name_vars>>

\* get_fit(path, info_file, start, stop) on a csv holding fit_df and a
\* metadata sheet holding the one row fit_metadata
GetFitCall ==
    /\ fit_call.op = "none"
    /\ \E a \in GetFitArgs :
        /\ fit_call' = a
        /\ fit_out' = get_fit(a.stem, fit_df, {fit_metadata}, a.start, a.stop)
    /\ UNCHANGED <<fit_df, fit_metadata>>
    /\ UNCHANGED <<batch_vars, export_vars, parse_vars, name_vars>>


(***************************************************************************)
(* Claims about linear_fit and get_fit                                     *)
(***************************************************************************)
\* the fields of a fit record other than the file name
FitFields == {"slope", "r2", "mean_temperature", "start_time", "stop_time", "duration"}

AllAbsent(res) == \A f \in FitFields : res[f] = Null
AllPresent(res) == \A f \in FitFields : res[f] # Null

\* the series has no row inside the closed window of the metadata row, the
\* stop of -1 read as the elapsed time of the last row
WindowSelectsNothing(df, metadata) ==
    LET stop == IF metadata.analysis_stop_seconds = -1
                THEN df[Len(df)].time_seconds
                ELSE metadata.analysis_stop_seconds
    IN  \A i \in 1..Len(df) :
            ~(metadata.analysis_start_seconds <= df[i].time_seconds
              /\ df[i].time_seconds <= stop)

\* C1: the record linear_fit returns has slope, r2, mean_temperature,
\* start_time, stop_time and duration all present or all absent together,
\* absent exactly when the window selects no row, and the file name is
\* always present.
C1_FieldsPresentTogether ==
    (fit_call.op = "linear_fit" /\ fit_out.status = "ok") =>
        /\ AllAbsent(fit_out.res) \/ AllPresent(fit_out.res)
        /\ AllAbsent(fit_out.res) <=> WindowSelectsNothing(fit_df, fit_metadata)
        /\ fit_out.res.source_file_cleaned = fit_df[1].source_file_cleaned

\* C2: a window that selects no row of a non-empty series makes linear_fit
\* return without error and without a regression: every field of the record
\* but the file name is absent, and every oxygen_fitted of the fitted series
\* is NaN.
C2_EmptyWindow ==
    (/\ fit_call.op = "linear_fit"
     /\ Len(fit_df) > 0
     /\ WindowSelectsNothing(fit_df, fit_metadata)) =>
        /\ fit_out.status = "ok"
        /\ ~fit_out.regressed
        /\ AllAbsent(fit_out.res)
        /\ fit_out.res.source_file_cleaned = fit_df[1].source_file_cleaned
        /\ \A i \in 1..Len(fit_out.fitted) : fit_out.fitted[i].oxygen_fitted = NaN

C2_Witness ==
    /\ fit_call.op = "linear_fit"
    /\ Len(fit_df) = MaxRows
    /\ fit_metadata.analysis_start_seconds > MaxTime
    /\ WindowSelectsNothing(fit_df, fit_metadata)
    /\ fit_out.status = "ok"

\* C3: on a non-empty series, linear_fit with analysis_stop_seconds = -1
\* returns what it returns with analysis_stop_seconds set to the elapsed
\* time of the last row.
C3_StopSentinel ==
    (/\ fit_call.op = "linear_fit"
     /\ Len(fit_df) > 0
     /\ fit_metadata.analysis_stop_seconds = -1) =>
        fit_out = linear_fit(fit_df,
                     [fit_metadata EXCEPT
                         !.analysis_stop_seconds = fit_df[Len(fit_df)].time_seconds])

C3_Witness ==
    /\ fit_call.op = "linear_fit"
    /\ fit_metadata.analysis_stop_seconds = -1
    /\ fit_out.status = "ok"
    /\ fit_out.regressed
    /\ fit_out.res.slope.k = "num"
    /\ fit_df[Len(fit_df)].time_seconds > 0

\* C10: get_fit returns the same thing whatever its start and stop
\* arguments: the window of the fit is the one of the metadata row.
C10_StartStopIgnored ==
    fit_call.op = "get_fit" =>
        /\ fit_out = get_fit(fit_call.stem, fit_df, {fit_metadata}, <<>>, <<>>)
        /\ \A a \in GetFitArgs :
              a.stem = fit_call.stem =>
                  fit_out = get_fit(a.stem, fit_df, {fit_metadata}, a.start, a.stop)

C10_Witness ==
    /\ fit_call.op = "get_fit"
    /\ fit_call.start # <<>>
    /\ fit_call.stop # <<>>
    /\ fit_call.start[1] # fit_metadata.analysis_start_seconds
    /\ fit_call.stop[1] # fit_metadata.analysis_stop_seconds
    /\ fit_out.status = "ok"
    /\ fit_out.res.slope.k = "num"


(***************************************************************************)
(* analyze.py: fit_all                                                     *)
(***************************************************************************)
RECURSIVE concat(_)
concat(dfs) == IF dfs = <<>> THEN <<>> ELSE Head(dfs) \o concat(Tail(dfs))

\* a mutant of WithStem: the column of the csv is kept as it is
WithStemKept(df, stem) == df

\* .with_columns(pl.lit(f.stem).alias("source_file_cleaned"))
WithStem(df, stem) == [i \in 1..Len(df) |-> [df[i] EXCEPT !.source_file_cleaned = stem]]

\* the values of a column in the order of their first appearance
RECURSIVE Unique(_, _)
Unique(col, seen) ==
    IF col = <<>> THEN <<>>
    ELSE IF Head(col) \in seen THEN Unique(Tail(col), seen)
    ELSE <<Head(col)>> \o Unique(Tail(col), seen \cup {Head(col)})

\* df.partition_by("source_file_cleaned", include_key=True): one frame per
\* key, in the order in which the keys first appear
partition_by(df) ==
    LET keys == Unique(get_column(df, "source_file_cleaned"), {})
    IN  [k \in 1..Len(keys) |->
            SelectSeq(df, LAMBDA r : r.source_file_cleaned = keys[k])]

\* pl.concat(pl.read_csv(f)...with_columns(...) for f in folder.glob("*.csv"))
\* .partition_by(...), the files enumerated in the order glob gives
ReadFolder(files, glob) ==
    partition_by(concat([i \in 1..Len(glob) |-> WithStem(files[glob[i]], glob[i])]))

\* the state of the loop of fit_all
LoopState(pc, res, src, err) == [pc |-> pc, res_dfs |-> res, source_dfs |-> src, err |-> err]

\* a mutant of the loop body: a file without a metadata row is skipped
fit_all_body_skip(st, df, info) ==
    LET rows == RowsByName(info, df[1].source_file_cleaned)
    IN  IF Cardinality(rows) # 1 THEN st
        ELSE LET out == linear_fit(df, CHOOSE r \in rows : TRUE)
             IN  IF out.status # "ok"
                 THEN LoopState("raised", st.res_dfs, st.source_dfs, out.status)
                 ELSE LoopState("loop", Append(st.res_dfs, <<out.res>>),
                                Append(st.source_dfs, out.fitted), "")

\* one pass of `for df in data`: lines 147-154
fit_all_body(st, df, info) ==
    LET source_name == df[1].source_file_cleaned
        rows == RowsByName(info, source_name)
    IN  IF rows = {}
        THEN LoopState("raised", st.res_dfs, st.source_dfs, "NoRowsReturnedError")
        ELSE IF Cardinality(rows) > 1
        THEN LoopState("raised", st.res_dfs, st.source_dfs, "TooManyRowsReturnedError")
        ELSE LET out == linear_fit(df, CHOOSE r \in rows : TRUE)
             IN  IF out.status # "ok"
                 THEN LoopState("raised", st.res_dfs, st.source_dfs, out.status)
                 ELSE LoopState("loop", Append(st.res_dfs, <<out.res>>),
                                Append(st.source_dfs, out.fitted), "")

NoTables == [res |-> <<>>, source |-> <<>>]

\* return pl.concat(res_dfs), pl.concat(source_dfs)
Tables(st) == [res |-> concat(st.res_dfs), source |-> concat(st.source_dfs)]

\* the whole of fit_all over the partitions dfs, from the loop state st
RECURSIVE fit_all_from(_, _, _)
fit_all_from(st, dfs, info) ==
    IF st.pc = "raised" THEN [pc |-> "raised", out |-> NoTables, err |-> st.err]
    ELSE IF dfs = <<>> THEN [pc |-> "returned", out |-> Tables(st), err |-> ""]
    ELSE fit_all_from(fit_all_body(st, Head(dfs), info), Tail(dfs), info)

\* fit_all(folder, info_file) with the folder enumerated in the order glob
fit_all(files, info, glob) ==
    IF glob = <<>> THEN [pc |-> "raised", out |-> NoTables, err |-> "ValueError"]
    ELSE fit_all_from(LoopState("loop", <<>>, <<>>, ""), ReadFolder(files, glob), info)

(***************************************************************************)
(* Inputs of fit_all                                                       *)
(***************************************************************************)
Stems == <<"f1", "f2", "f3">>

\* the elapsed times of a cleaned file; presens_to_csv writes no file
\* without a first row, so a cleaned file has one
BatchTimes == {<<0>>, <<0, 1>>, <<0, 0>>}

\* a cleaned csv: its own source_file_cleaned column holds the mapped name
CleanedFile(times) == [i \in 1..Len(times) |-> Row("mapped", times[i], times[i], <<4>>)]

BatchWindows == {<<0, -1>>, <<1, 0>>}

Perms(S) == {p \in [1..Cardinality(S) -> S] : \A i, j \in 1..Cardinality(S) : p[i] = p[j] => i = j}

StemSet(n) == {Stems[i] : i \in 1..n}

\* lines 136-144: read the sheet and the folder
FitAllRead ==
    /\ batch_pc = "start"
    /\ data' = ReadFolder(folder, order)
    /\ batch_pc' = "loop"
    /\ UNCHANGED <<folder, info_df, order, batch_i, res_dfs, source_dfs, batch_out, batch_err>>
    /\ UNCHANGED <<fit_vars, export_vars, parse_vars, name_vars>>

\* lines 146-154: one file fitted, or the error that ends the batch
FitAllLoop ==
    /\ batch_pc = "loop"
    /\ batch_i < Len(data)
    /\ LET st == fit_all_body(LoopState("loop", res_dfs, source_dfs, ""),
                              data[batch_i + 1], info_df)
       IN  /\ batch_pc' = st.pc
           /\ res_dfs' = st.res_dfs
           /\ source_dfs' = st.source_dfs
           /\ batch_err' = st.err
    /\ batch_i' = batch_i + 1
    /\ UNCHANGED <<folder, info_df, order, data, batch_out>>
    /\ UNCHANGED <<fit_vars, export_vars, parse_vars, name_vars>>

\* line 156
FitAllReturn ==
    /\ batch_pc = "loop"
    /\ batch_i = Len(data)
    /\ batch_out' = Tables(LoopState("loop", res_dfs, source_dfs, ""))
    /\ batch_pc' = "returned"
    /\ UNCHANGED <<folder, info_df, order, data, batch_i, res_dfs, source_dfs, batch_err>>
    /\ UNCHANGED <<fit_vars, export_vars, parse_vars, name_vars>>


(***************************************************************************)
(* Claims about fit_all                                                    *)
(***************************************************************************)
Files == DOMAIN folder

HasMetadata(f) == \E r \in info_df : r.source_file_cleaned = f

MetadataOf(f) == CHOOSE r \in info_df : r.source_file_cleaned = f

BatchDone == batch_pc \in {"returned", "raised"}

RowSet(table) == {table[i] : i \in 1..Len(table)}

\* the rows of df inside the closed window of the metadata row
WindowRows(df, metadata) ==
    LET stop == IF metadata.analysis_stop_seconds = -1
                THEN df[Len(df)].time_seconds
                ELSE metadata.analysis_stop_seconds
    IN  SelectSeq(df, LAMBDA r : metadata.analysis_start_seconds <= r.time_seconds
                                 /\ r.time_seconds <= stop)

\* the window holds two rows or more, all at one elapsed time: the
\* regression has no spread in x to work with
SameTimeWindow(df, metadata) ==
    LET w == WindowRows(df, metadata)
    IN  /\ Len(w) >= 2
        /\ \A i, j \in 1..Len(w) : w[i].time_seconds = w[j].time_seconds

\* what the claim C5 says of a finished batch
OneRowPerFile ==
    /\ batch_pc = "returned"
    /\ Len(batch_out.res) = Cardinality(Files)
    /\ {batch_out.res[i].source_file_cleaned : i \in 1..Len(batch_out.res)} = Files
    /\ \A o \in Perms(Files) :
          LET other == fit_all(folder, info_df, o)
          IN  /\ other.pc = "returned"
              /\ RowSet(other.out.res) = RowSet(batch_out.res)
              /\ Len(other.out.res) = Len(batch_out.res)

IsLeap(y) == (y % 4 = 0 /\ y % 100 # 0) \/ y % 400 = 0

DaysInMonth(y, m) ==
    IF m = 2 THEN (IF IsLeap(y) THEN 29 ELSE 28)
    ELSE IF m \in {4, 6, 9, 11} THEN 30 ELSE 31

RECURSIVE DaysBeforeMonth(_, _)
DaysBeforeMonth(y, m) ==
    IF m = 1 THEN 0 ELSE DaysBeforeMonth(y, m - 1) + DaysInMonth(y, m - 1)

\* leap days of the years 1..y
LeapsUpTo(y) == (y \div 4) - (y \div 100) + (y \div 400)

\* days from 2000-01-01 to the day y-m-d
DaysFromCivil(y, m, d) ==
    365 * (y - 2000) + (LeapsUpTo(y - 1) - LeapsUpTo(1999)) + DaysBeforeMonth(y, m) + (d - 1)

\* %y of the format "%d/%m/%y %H:%M:%S": two digits, 00-69 read as 20xx
Year(yy) == IF yy < 70 THEN 2000 + yy ELSE 1900 + yy

\* concat_str([date, time]).str.to_datetime(format): the wall-clock time of
\* the row in seconds, date = <<dd, mm, yy>> and time = <<hh, mm, ss>>
to_datetime(date, time) ==
    DaysFromCivil(Year(date[3]), date[2], date[1]) * 86400
        + time[1] * 3600 + time[2] * 60 + time[3]

\* .dt.convert_time_zone(tz_local) of a time of tz_presens, read on the
\* local wall clock: Europe/Berlin is nine hours ahead of America/Los_Angeles
convert_time_zone(t) == t - 9 * 3600

\* combine_to_datetime(date_column, time_column, convert_to_tz=...) of a row
combine_to_datetime(r, convert) ==
    IF convert THEN convert_time_zone(to_datetime(r.date_dd_mm_yy, r.time_hh_mm_ss))
    ELSE to_datetime(r.date_dd_mm_yy, r.time_hh_mm_ss)

RequiredColumns == {"date_dd_mm_yy", "time_hh_mm_ss", "oxygen_airsatur", "temp_c", "phase", "amp"}

\* lines 72-76: logtime_min if the file has it, else logtime_h * 60
logtime_col(columns, r) == IF "logtime_min" \in columns THEN r.logtime ELSE r.logtime * 60

\* a mutant of the elapsed time: the difference to the row before
ElapsedSincePrevious(rows, i) ==
    combine_to_datetime(rows[i], FALSE)
        - combine_to_datetime(rows[IF i = 1 THEN 1 ELSE i - 1], FALSE)

\* lines 81-87: (datetime - datetime.first()).dt.total_seconds()
Elapsed(rows, i) ==
    combine_to_datetime(rows[i], FALSE) - combine_to_datetime(rows[1], FALSE)

\* parse_presens_file(source, renamed_source): file is what scan_csv and
\* clean_names give, its column names and its rows
parse_presens_file(stem, file, renamed_source) ==
    IF ~(RequiredColumns \subseteq file.columns)
       \/ ({"logtime_min", "logtime_h"} \cap file.columns = {})
    THEN [status |-> "ColumnNotFoundError", df |-> <<>>]
    ELSE [status |-> "ok",
          df |-> [i \in 1..Len(file.rows) |->
                    [source_file |-> stem,
                     source_file_cleaned |-> renamed_source,
                     time_seconds |-> Elapsed(file.rows, i),
                     logtime_min |-> logtime_col(file.columns, file.rows[i]),
                     oxygen |-> file.rows[i].oxygen_airsatur,
                     temperature |-> file.rows[i].temp_c,
                     phase |-> file.rows[i].phase,
                     amplitude |-> file.rows[i].amp,
                     datetime_presens |-> combine_to_datetime(file.rows[i], FALSE),
                     datetime_local |-> combine_to_datetime(file.rows[i], TRUE)]]]

(***************************************************************************)
(* Inputs of parse_presens_file                                            *)
(***************************************************************************)
RawDates == {<<31, 12, 24>>, <<1, 1, 25>>}
RawTimes == {<<23, 59, 59>>, <<0, 0, 0>>}

RawRow(date, time) ==
    [date_dd_mm_yy |-> date, time_hh_mm_ss |-> time, oxygen_airsatur |-> 95,
     temp_c |-> <<4>>, phase |-> 30, amp |-> 1000, logtime |-> 1]

RawRows == {RawRow(d, t) : d \in RawDates, t \in RawTimes}

ColumnSets == {RequiredColumns \cup {"logtime_min"},
               RequiredColumns \cup {"logtime_h"},
               (RequiredColumns \ {"amp"}) \cup {"logtime_min"}}

RawFile(columns, rows) == [columns |-> columns, rows |-> rows]

NoFrame == [status |-> "", df |-> <<>>]

\* parse_presens_file(source, renamed_source)
ParseCall ==
    /\ parse_pc = "input"
    /\ parsed' = parse_presens_file("s1", raw_file, "x_a")
    /\ parse_pc' = IF parsed'.status = "ok" THEN "parsed" ELSE "raised"
    /\ UNCHANGED raw_file
    /\ UNCHANGED <<fit_vars, batch_vars, export_vars, name_vars>>

(***************************************************************************)
(* Claims about parse_presens_file                                         *)
(***************************************************************************)
ElapsedFromZero ==
    /\ Len(parsed.df) = Len(raw_file.rows)
    /\ Len(parsed.df) > 0 => parsed.df[1].time_seconds = 0
    /\ \A i \in 1..(Len(parsed.df) - 1) :
          parsed.df[i].time_seconds <= parsed.df[i + 1].time_seconds
    /\ \A i \in 1..Len(parsed.df) :
          parsed.df[i].datetime_presens
              = to_datetime(raw_file.rows[i].date_dd_mm_yy, raw_file.rows[i].time_hh_mm_ss)

\* the date and time columns of the file do not go back from a row to the next
TimeOrdered(rows) ==
    \A i \in 1..(Len(rows) - 1) :
        to_datetime(rows[i].date_dd_mm_yy, rows[i].time_hh_mm_ss)
            <= to_datetime(rows[i + 1].date_dd_mm_yy, rows[i + 1].time_hh_mm_ss)

\* C7 (as claimed): of every file parse_presens_file accepts, time_seconds
\* is 0 in row 0 and does not decrease from a row to the next, the rows in
\* the order of the file.
C7_ElapsedMonotone == parse_pc = "parsed" => ElapsedFromZero

\* C7 (amended): the same, of every accepted file whose date and time
\* columns do not go back from a row to the next.
C7_ElapsedMonotoneOrdered ==
    (parse_pc = "parsed" /\ TimeOrdered(raw_file.rows)) => ElapsedFromZero

C7_Witness ==
    /\ parse_pc = "parsed"
    /\ TimeOrdered(raw_file.rows)
    /\ Len(parsed.df) = MaxRawRows
    /\ parsed.df[MaxRawRows].time_seconds > parsed.df[2].time_seconds
    /\ parsed.df[2].time_seconds > 0


(***************************************************************************)
(* clean.py: presens_to_csv                                                *)
(***************************************************************************)
\* A file name is the sequence of its parts between underscores:
\* "x_a" is <<"x", "a">>.  new.split('_', 1)[1] is then the tail, and the
\* name has no such part when it holds no underscore.

\* a mutant of Rename: a stem without a mapping is left out
RenameMapped(mapping, glob) ==
    [raised |-> FALSE,
     renamed |-> LET kept == SelectSeq(glob, LAMBDA f : f \in DOMAIN mapping)
                 IN  [i \in 1..Len(kept) |-> <<kept[i], mapping[kept[i]]>>]]

\* line 117: {f.resolve().as_posix(): name_mapping[f.stem] for f in glob("*.txt")}
Rename(mapping, glob) ==
    IF \E i \in 1..Len(glob) : glob[i] \notin DOMAIN mapping
    THEN [raised |-> TRUE, renamed |-> <<>>]
    ELSE [raised |-> FALSE, renamed |-> [i \in 1..Len(glob) |-> <<glob[i], mapping[glob[i]]>>]]

\* lines 121-127: one pass of the first loop, for the pair <<old, new>>
ExportParse(files, old, new) ==
    LET got == parse_presens_file(old, files[old], new)
    IN  IF got.status # "ok" THEN [err |-> got.status, name |-> <<>>, df |-> <<>>]
        ELSE IF Len(got.df) = 0 THEN [err |-> "IndexError", name |-> <<>>, df |-> <<>>]
        ELSE IF Len(new) < 2 THEN [err |-> "IndexError", name |-> <<>>, df |-> <<>>]
        ELSE [err |-> "", name |-> <<got.df[1].datetime_local>> \o Tail(new), df |-> got.df]

\* lines 130-131: the file is written, over one of the same name if any
WriteCsv(out, name, df) == [n \in DOMAIN out \cup {name} |-> IF n = name THEN df ELSE out[n]]

(***************************************************************************)
(* Inputs of presens_to_csv                                                *)
(***************************************************************************)
TxtStems == <<"s1", "s2", "s3">>

TxtSet(n) == {TxtStems[i] : i \in 1..n}

FullColumns == RequiredColumns \cup {"logtime_min"}

ExportRaws ==
    {RawFile(FullColumns, <<RawRow(<<1, 1, 25>>, <<0, 0, 0>>)>>),
     RawFile(FullColumns, <<RawRow(<<31, 12, 24>>, <<23, 59, 59>>),
                            RawRow(<<1, 1, 25>>, <<0, 0, 0>>)>>),
     RawFile(FullColumns, <<>>)}

NewNames == {<<"x", "a">>, <<"y", "a">>, <<"z">>}

NoFiles == [n \in {} |-> <<>>]

\* line 117
ExportRename ==
    /\ export_pc = "start"
    /\ LET r == Rename(name_mapping, glob_order)
       IN  /\ renamed' = r.renamed
           /\ export_pc' = IF r.raised THEN "raised" ELSE "parse"
           /\ export_err' = IF r.raised THEN "KeyError" ELSE ""
    /\ UNCHANGED <<txt_files, name_mapping, glob_order, renamed_with_dtm, export_i, written>>
    /\ UNCHANGED <<fit_vars, batch_vars, parse_vars, name_vars>>

\* lines 120-127: one file parsed and named, or the error that ends the export
ExportParseNext ==
    /\ export_pc = "parse"
    /\ export_i < Len(renamed)
    /\ LET r == ExportParse(txt_files, renamed[export_i + 1][1], renamed[export_i + 1][2])
       IN  IF r.err # ""
           THEN /\ export_pc' = "raised"
                /\ export_err' = r.err
                /\ UNCHANGED <<renamed_with_dtm, export_i>>
           ELSE /\ renamed_with_dtm' =
                      Append(renamed_with_dtm, <<renamed[export_i + 1][1], r.name, r.df>>)
                /\ export_i' = export_i + 1
                /\ UNCHANGED <<export_pc, export_err>>
    /\ UNCHANGED <<txt_files, name_mapping, glob_order, renamed, written>>
    /\ UNCHANGED <<fit_vars, batch_vars, parse_vars, name_vars>>

\* the first loop is over: on to the second
ExportParsed ==
    /\ export_pc = "parse"
    /\ export_i = Len(renamed)
    /\ export_pc' = "write"
    /\ export_i' = 0
    /\ UNCHANGED <<txt_files, name_mapping, glob_order, renamed, renamed_with_dtm,
                   written, export_err>>
    /\ UNCHANGED <<fit_vars, batch_vars, parse_vars, name_vars>>

\* lines 129-131: one file written
ExportWriteNext ==
    /\ export_pc = "write"
    /\ export_i < Len(renamed_with_dtm)
    /\ written' = WriteCsv(written, renamed_with_dtm[export_i + 1][2],
                           renamed_with_dtm[export_i + 1][3])
    /\ export_i' = export_i + 1
    /\ UNCHANGED <<txt_files, name_mapping, glob_order, export_pc, renamed,
                   renamed_with_dtm, export_err>>
    /\ UNCHANGED <<fit_vars, batch_vars, parse_vars, name_vars>>

\* the second loop is over: presens_to_csv returns
ExportReturn ==
    /\ export_pc = "write"
    /\ export_i = Len(renamed_with_dtm)
    /\ export_pc' = "done"
    /\ UNCHANGED <<txt_files, name_mapping, glob_order, renamed, renamed_with_dtm,
                   export_i, written, export_err>>
    /\ UNCHANGED <<fit_vars, batch_vars, parse_vars, name_vars>>

(***************************************************************************)
(* Claims about presens_to_csv                                             *)
(***************************************************************************)
TxtFiles == DOMAIN txt_files

Unmapped == {f \in TxtFiles : f \notin DOMAIN name_mapping}

\* the mapped files that parse, hold a row and have a name with a suffix
Exportable ==
    {f \in TxtFiles \cap DOMAIN name_mapping :
        /\ RequiredColumns \subseteq txt_files[f].columns
        /\ Len(txt_files[f].rows) > 0
        /\ Len(name_mapping[f]) >= 2}

ExportEnded == export_pc \in {"done", "raised"}

\* C4 (as claimed): a .txt file whose stem is not in the mapping is
\* skipped, the export is not aborted by the missing key, and every other
\* file whose stem is mapped gets its cleaned output file.
C4_MissingKeySkipped ==
    (ExportEnded /\ Unmapped # {} /\ Exportable # {}) =>
        /\ export_err # "KeyError"
        /\ \A f \in Exportable :
              \E n \in DOMAIN written :
                  /\ Tail(n) = Tail(name_mapping[f])
                  /\ written[n][1].source_file = f

\* C4 (amended): a .txt file whose stem is not in the mapping makes
\* presens_to_csv raise KeyError before any file is parsed: no output file
\* is written, for the mapped files neither.
C4_MissingKeyAborts ==
    (export_pc # "start" /\ Unmapped # {}) =>
        /\ export_pc = "raised"
        /\ export_err = "KeyError"
        /\ renamed_with_dtm = <<>>
        /\ written = NoFiles

C4_Witness ==
    /\ export_pc = "raised"
    /\ export_err = "KeyError"
    /\ Cardinality(Unmapped) = 1
    /\ Exportable # {}
    /\ written = NoFiles


(***************************************************************************)
(* processing.py: clean_name                                               *)
(***************************************************************************)
\* A string is the sequence of its characters, each a string of its own;
\* "e_acute" and "E_acute" are the letters e and E with an acute accent,
\* "acute" the combining accent, "nbsp" the no-break space \xa0 and
\* "rsquo" the apostrophe U+2019.

\* str.lower() of one character
Lower(c) ==
    CASE c = "A" -> "a"
      [] c = "O" -> "o"
      [] c = "S" -> "s"
      [] c = "E_acute" -> "e_acute"
      [] OTHER -> c

lower(name) == [i \in 1..Len(name) |-> Lower(name[i])]

\* re.sub of a character class by repl
RECURSIVE re_sub(_, _, _)
re_sub(class, repl, name) ==
    IF name = <<>> THEN <<>>
    ELSE (IF Head(name) \in class THEN repl ELSE <<Head(name)>>)
             \o re_sub(class, repl, Tail(name))

FIXES ==
    <<[search |-> {" ", "/", ":", ",", "?", "(", ")", ".", "-"}, replace |-> <<"_">>],
      [search |-> {"'", "rsquo"}, replace |-> <<>>],
      [search |-> {"nbsp"}, replace |-> <<"_">>]>>

RECURSIVE ApplyFixes(_, _)
ApplyFixes(fixes, name) ==
    IF fixes = <<>> THEN name
    ELSE ApplyFixes(Tail(fixes), re_sub(Head(fixes).search, Head(fixes).replace, name))

_normalize_1(name) == ApplyFixes(FIXES, name)

\* str.isalnum() of one character
IsAlnum(c) ==
    c \in {"a", "e", "i", "o", "r", "s", "t", "A", "O", "S", "e_acute", "E_acute",
           "0", "1", "2"}

_remove_special(name) == SelectSeq(name, LAMBDA item : IsAlnum(item) \/ item = "_")

\* unicodedata.normalize("NFD", c) of one character
NFD(c) ==
    CASE c = "e_acute" -> <<"e", "acute">>
      [] c = "E_acute" -> <<"E", "acute">>
      [] OTHER -> <<c>>

\* unicodedata.combining(c) # 0
Combining(c) == c = "acute"

RECURSIVE Normalize(_)
Normalize(name) == IF name = <<>> THEN <<>> ELSE NFD(Head(name)) \o Normalize(Tail(name))

_strip_accents(name) == SelectSeq(Normalize(name), LAMBDA letter : ~Combining(letter))

RECURSIVE LStrip(_)
LStrip(name) ==
    IF name # <<>> /\ Head(name) = "_" THEN LStrip(Tail(name)) ELSE name

RECURSIVE RStrip(_)
RStrip(name) ==
    IF name # <<>> /\ name[Len(name)] = "_"
    THEN RStrip(SubSeq(name, 1, Len(name) - 1))
    ELSE name

\* name.strip("_")
_strip_underscores(name) == RStrip(LStrip(name))

clean_name(name, strip_accents, strip_underscores, remove_special) ==
    LET n1 == lower(name)
        n2 == _normalize_1(n1)
        n3 == IF strip_accents THEN _strip_accents(n2) ELSE n2
        n4 == IF strip_underscores THEN _strip_underscores(n3) ELSE n3
    IN  IF remove_special THEN _remove_special(n4) ELSE n4

(***************************************************************************)
(* Inputs of clean_name                                                    *)
(***************************************************************************)
NameChars == {"a", "A", "_", " ", "$", "'", "e_acute"}

\* the column header "O2 (Air Sat.)"
AirSatHeader == <<"O", "2", " ", "(", "A", "i", "r", " ", "S", "a", "t", ".", ")">>

NameCall(name, accents, underscores, special) ==
    [name |-> name, strip_accents |-> accents, strip_underscores |-> underscores,
     remove_special |-> special]

\* clean_name(name, strip_accents, strip_underscores, remove_special)
CleanNameCall ==
    /\ name_pc = "input"
    /\ name_out' = clean_name(name_in.name, name_in.strip_accents,
                              name_in.strip_underscores, name_in.remove_special)
    /\ name_pc' = "done"
    /\ UNCHANGED name_in
    /\ UNCHANGED <<fit_vars, batch_vars, export_vars, parse_vars>>

(***************************************************************************)
(* Claims about clean_name                                                 *)
(***************************************************************************)
DefaultOptions ==
    name_in.strip_accents /\ name_in.strip_underscores /\ name_in.remove_special

\* C8: with its default options clean_name is idempotent: cleaning a
\* cleaned name gives the cleaned name back.
C8_Idempotent ==
    (name_pc = "done" /\ DefaultOptions) =>
        clean_name(name_out, TRUE, TRUE, TRUE) = name_out

\* C9: with its default options clean_name("O2 (Air Sat.)") is
\* "o2_air_sat", one underscore for the space and the parenthesis together.
C9_AirSat ==
    (name_pc = "done" /\ DefaultOptions /\ name_in.name = AirSatHeader) =>
        name_out = <<"o", "2", "_", "a", "i", "r", "_", "s", "a", "t">>

(***************************************************************************)
(* Specifications: one per entry point, the state of the others at rest    *)
(***************************************************************************)
\* linear_fit and get_fit over every series and window of the bounds
Init ==
    /\ fit_df \in SeqsUpTo(FitRows, MaxRows)
    /\ fit_metadata \in FitWindows
    /\ fit_call = NoCall
    /\ fit_out = NoFit
    /\ folder = <<>>
    /\ info_df = {}
    /\ order = <<>>
    /\ batch_pc = "idle"
    /\ data = <<>>
    /\ batch_i = 0
    /\ res_dfs = <<>>
    /\ source_dfs = <<>>
    /\ batch_out = NoTables
    /\ batch_err = ""
    /\ txt_files = NoFiles
    /\ name_mapping = NoFiles
    /\ glob_order = <<>>
    /\ export_pc = "idle"
    /\ renamed = <<>>
    /\ renamed_with_dtm = <<>>
    /\ export_i = 0
    /\ written = NoFiles
    /\ export_err = ""
    /\ raw_file = RawFile({}, <<>>)
    /\ parse_pc = "idle"
    /\ parsed = NoFrame
    /\ name_in = NameCall(<<>>, TRUE, TRUE, TRUE)
    /\ name_pc = "idle"
    /\ name_out = <<>>

Next == LinearFitCall \/ GetFitCall

Spec == Init /\ [][Next]_vars

\* fit_all over every folder, metadata sheet and order of the bounds
InitBatch ==
    /\ fit_df = <<>>
    /\ fit_metadata = MetadataRow("a", 0, -1)
    /\ fit_call = NoCall
    /\ fit_out = NoFit
    /\ \E n \in 1..MaxFiles :
            /\ folder \in [StemSet(n) -> {CleanedFile(t) : t \in BatchTimes}]
            /\ \E described \in SUBSET StemSet(n) :
               \E w \in [described -> BatchWindows] :
                  info_df = {MetadataRow(f, w[f][1], w[f][2]) : f \in described}
            /\ order \in Perms(StemSet(n))
            /\ batch_pc = "start"
            /\ data = <<>>
            /\ batch_i = 0
            /\ res_dfs = <<>>
            /\ source_dfs = <<>>
            /\ batch_out = NoTables
            /\ batch_err = ""
    /\ txt_files = NoFiles
    /\ name_mapping = NoFiles
    /\ glob_order = <<>>
    /\ export_pc = "idle"
    /\ renamed = <<>>
    /\ renamed_with_dtm = <<>>
    /\ export_i = 0
    /\ written = NoFiles
    /\ export_err = ""
    /\ raw_file = RawFile({}, <<>>)
    /\ parse_pc = "idle"
    /\ parsed = NoFrame
    /\ name_in = NameCall(<<>>, TRUE, TRUE, TRUE)
    /\ name_pc = "idle"
    /\ name_out = <<>>

NextBatch == FitAllRead \/ FitAllLoop \/ FitAllReturn

SpecBatch == InitBatch /\ [][NextBatch]_vars

\* presens_to_csv over every folder, mapping and order of the bounds
InitExport ==
    /\ fit_df = <<>>
    /\ fit_metadata = MetadataRow("a", 0, -1)
    /\ fit_call = NoCall
    /\ fit_out = NoFit
    /\ folder = <<>>
    /\ info_df = {}
    /\ order = <<>>
    /\ batch_pc = "idle"
    /\ data = <<>>
    /\ batch_i = 0
    /\ res_dfs = <<>>
    /\ source_dfs = <<>>
    /\ batch_out = NoTables
    /\ batch_err = ""
    /\ \E n \in 0..MaxTxt :
            /\ txt_files \in [TxtSet(n) -> ExportRaws]
            /\ \E mapped \in SUBSET TxtSet(n) : name_mapping \in [mapped -> NewNames]
            /\ glob_order \in Perms(TxtSet(n))
            /\ export_pc = "start"
            /\ renamed = <<>>
            /\ renamed_with_dtm = <<>>
            /\ export_i = 0
            /\ written = NoFiles
            /\ export_err = ""
    /\ raw_file = RawFile({}, <<>>)
    /\ parse_pc = "idle"
    /\ parsed = NoFrame
    /\ name_in = NameCall(<<>>, TRUE, TRUE, TRUE)
    /\ name_pc = "idle"
    /\ name_out = <<>>

NextExport == ExportRename \/ ExportParseNext \/ ExportParsed \/ ExportWriteNext \/ ExportReturn

SpecExport == InitExport /\ [][NextExport]_vars

\* parse_presens_file over every instrument file of the bounds
InitParse ==
    /\ fit_df = <<>>
    /\ fit_metadata = MetadataRow("a", 0, -1)
    /\ fit_call = NoCall
    /\ fit_out = NoFit
    /\ folder = <<>>
    /\ info_df = {}
    /\ order = <<>>
    /\ batch_pc = "idle"
    /\ data = <<>>
    /\ batch_i = 0
    /\ res_dfs = <<>>
    /\ source_dfs = <<>>
    /\ batch_out = NoTables
    /\ batch_err = ""
    /\ txt_files = NoFiles
    /\ name_mapping = NoFiles
    /\ glob_order = <<>>
    /\ export_pc = "idle"
    /\ renamed = <<>>
    /\ renamed_with_dtm = <<>>
    /\ export_i = 0
    /\ written = NoFiles
    /\ export_err = ""
    /\ raw_file \in {RawFile(c, r) : c \in ColumnSets, r \in SeqsUpTo(RawRows, MaxRawRows)}
    /\ parse_pc = "input"
    /\ parsed = NoFrame
    /\ name_in = NameCall(<<>>, TRUE, TRUE, TRUE)
    /\ name_pc = "idle"
    /\ name_out = <<>>

NextParse == ParseCall

SpecParse == InitParse /\ [][NextParse]_vars

\* clean_name over every name and choice of options of the bounds
InitName ==
    /\ fit_df = <<>>
    /\ fit_metadata = MetadataRow("a", 0, -1)
    /\ fit_call = NoCall
    /\ fit_out = NoFit
    /\ folder = <<>>
    /\ info_df = {}
    /\ order = <<>>
    /\ batch_pc = "idle"
    /\ data = <<>>
    /\ batch_i = 0
    /\ res_dfs = <<>>
    /\ source_dfs = <<>>
    /\ batch_out = NoTables
    /\ batch_err = ""
    /\ txt_files = NoFiles
    /\ name_mapping = NoFiles
    /\ glob_order = <<>>
    /\ export_pc = "idle"
    /\ renamed = <<>>
    /\ renamed_with_dtm = <<>>
    /\ export_i = 0
    /\ written = NoFiles
    /\ export_err = ""
    /\ raw_file = RawFile({}, <<>>)
    /\ parse_pc = "idle"
    /\ parsed = NoFrame
    /\ name_in \in {NameCall(n, a, u, r) :
                       n \in SeqsUpTo(NameChars, MaxLen) \cup {AirSatHeader},
                       a \in BOOLEAN, u \in BOOLEAN, r \in BOOLEAN}
    /\ name_pc = "input"
    /\ name_out = <<>>

NextName == CleanNameCall

SpecName == InitName /\ [][NextName]_vars

====
